---------------------------- MODULE Spec2Model ----------------------------
(***************************************************************************)
(* A model of hmath's exact-arithmetic core: UBigInt subtraction           *)
(* (src/src/ubigint/arith/sub.rs), UBigInt::sqrt / is_prime /              *)
(* prime_factorial (src/src/ubigint/funcs.rs) and the Ratio rounding       *)
(* family (src/src/ratio/funcs.rs).                                        *)
(*                                                                         *)
(* A UBigInt is a sequence of limbs, least significant first.  The code's  *)
(* limb is a u32; the model keeps the limb arithmetic of the code but      *)
(* scales the limb width to 2 * HalfLimbBits bits, so that u32::MAX        *)
(* becomes Base - 1.  The width stays even, as 32 is: Base - 1 is then     *)
(* odd and a multiple of 3, the two facts about u32::MAX = 3 * 5 * 17 *    *)
(* 257 * 65537 that the trial-division loops depend on.                    *)
(*                                                                         *)
(* Each subsystem has one state variable holding a record, and its own     *)
(* specification (SpecSub, SpecRatio, SpecSqrt, SpecPrime); a              *)
(* specification holds the other subsystems' variables at Idle.            *)
(***************************************************************************)
EXTENDS Integers, Sequences, FiniteSets, Bags, TLC

VARIABLES ubi, rat, sq, pr

vars == <<ubi, rat, sq, pr>>

Idle == [pc |-> "idle"]

(***************************************************************************)
(* Bounds of the model.                                                    *)
(***************************************************************************)
\* half the limb width in bits: a limb has 2 * HalfLimbBits bits
HalfLimbBits == 2
\* longest operand (other) of the subtraction machine, in limbs; self has up
\* to MaxLen + 1 limbs
MaxLen == 2
\* operations applied in a row by the subtraction machine
MaxOps == 2
\* the Ratio machine starts from every n/d in lowest terms with
\* |n| <= MaxNumer and 1 <= d <= MaxDenom
MaxNumer == 64
MaxDenom == 10
\* sqrt is run on every n up to SqrtMaxN and on every n within SqrtWindow of
\* Base^2 and of Base^3, where the limb count changes
SqrtMaxN == 300
SqrtWindow == 40
\* is_prime and prime_factorial are run on every n up to u32::MAX^2 + PrimeExtra
PrimeExtra == 400
\* the factor list of a prime_factorial that no longer stops is cut here
MaxFactors == 16
\* factorial and fibonacci are run on every n up to MaxArg
MaxArg == 200
\* log2 is run on s * 2^k - 1, s * 2^k and s * 2^k + 1 for every seed s
\* and every k up to MaxShift
MaxShift == 100
\* ln_iter and pow_iter are called with every iter up to MaxIter
MaxIter == 2
\* the series of ln_iter is only run past iter = 0 on an argument a whose
\* numerator and denominator are within MaxSeriesTerm
MaxSeriesTerm == 4
\* the rescaling of ln_iter is run on every n/d in lowest terms with
\* n <= MaxReduceNumer, d <= MaxReduceDenom
MaxReduceNumer == 12
MaxReduceDenom == 4

(***************************************************************************)
(* Limbs.                                                                  *)
(***************************************************************************)
RECURSIVE Pow(_, _)
Pow(b, e) == IF e = 0 THEN 1 ELSE b * Pow(b, e - 1)

Base == Pow(4, HalfLimbBits)

U32MAX == Base - 1

InU32(v) == v >= 0 /\ v <= U32MAX

\* what a limb computation stores when the build wraps
Wrap(v) == ((v % Base) + Base) % Base

RECURSIVE ToNat(_)
ToNat(s) == IF s = <<>> THEN 0 ELSE Head(s) + Base * ToNat(Tail(s))

RECURSIVE FromNat(_)
FromNat(n) == IF n < Base THEN <<n>> ELSE <<n % Base>> \o FromNat(n \div Base)

is_valid(s) == Len(s) >= 1 /\ (Len(s) > 1 => s[Len(s)] # 0)

RECURSIVE remove_suffix_0(_)
remove_suffix_0(s) ==
    IF Len(s) > 1 /\ s[Len(s)] = 0
    THEN remove_suffix_0(SubSeq(s, 1, Len(s) - 1))
    ELSE s


(***************************************************************************)
(* UBigInt subtraction, src/src/ubigint/arith/sub.rs.  Every operator      *)
(* returns the limbs it leaves, whether it panicked, and whether a limb    *)
(* computation left the range of a u32 (ovf).                              *)
(***************************************************************************)

\* sub_limb with the borrow forgotten in the comparison of the carry branch
sub_limb_borrow_forgotten(si, oi, carry) ==
    IF carry
    THEN IF oi # U32MAX /\ si >= oi
         THEN [limb  |-> Wrap(si - (oi + 1)),
               carry |-> FALSE,
               ovf   |-> ~InU32(oi + 1) \/ ~InU32(si - (oi + 1))]
         ELSE [limb  |-> Wrap(U32MAX - (oi - si)),
               carry |-> TRUE,
               ovf   |-> ~InU32(oi - si) \/ ~InU32(U32MAX - (oi - si))]
    ELSE IF si >= oi
         THEN [limb  |-> Wrap(si - oi),
               carry |-> FALSE,
               ovf   |-> ~InU32(si - oi)]
         ELSE [limb  |-> Wrap(U32MAX - (oi - si) + 1),
               carry |-> TRUE,
               ovf   |-> \/ ~InU32(oi - si)
                         \/ ~InU32(U32MAX - (oi - si))
                         \/ ~InU32(U32MAX - (oi - si) + 1)]

\* one pass of the loop body of sub_ubi_mut, on limb i of self and other
sub_limb(si, oi, carry) ==
    IF carry
    THEN IF oi # U32MAX /\ si >= oi + 1
         THEN [limb  |-> Wrap(si - (oi + 1)),
               carry |-> FALSE,
               ovf   |-> ~InU32(oi + 1) \/ ~InU32(si - (oi + 1))]
         ELSE [limb  |-> Wrap(U32MAX - (oi - si)),
               carry |-> TRUE,
               ovf   |-> ~InU32(oi - si) \/ ~InU32(U32MAX - (oi - si))]
    ELSE IF si >= oi
         THEN [limb  |-> Wrap(si - oi),
               carry |-> FALSE,
               ovf   |-> ~InU32(si - oi)]
         ELSE [limb  |-> Wrap(U32MAX - (oi - si) + 1),
               carry |-> TRUE,
               ovf   |-> \/ ~InU32(oi - si)
                         \/ ~InU32(U32MAX - (oi - si))
                         \/ ~InU32(U32MAX - (oi - si) + 1)]

\* for i in 0..other.len(): self.0[i] is a checked index, so the loop panics
\* at the first i that self does not have
RECURSIVE sub_ubi_loop(_, _, _, _, _)
sub_ubi_loop(s, o, i, carry, ovf) ==
    IF i >= Len(o)
    THEN [limbs |-> s, carry |-> carry, ovf |-> ovf, panic |-> FALSE]
    ELSE IF i >= Len(s)
    THEN [limbs |-> s, carry |-> carry, ovf |-> ovf, panic |-> TRUE]
    ELSE LET r == sub_limb(s[i + 1], o[i + 1], carry)
         IN  sub_ubi_loop([s EXCEPT ![i + 1] = r.limb], o, i + 1,
                          r.carry, ovf \/ r.ovf)

\* if carry { for i in other.len()..self.len() { ... } }
RECURSIVE borrow_loop(_, _)
borrow_loop(s, i) ==
    IF i >= Len(s)
    THEN s
    ELSE IF s[i + 1] > 0
    THEN [s EXCEPT ![i + 1] = s[i + 1] - 1]
    ELSE borrow_loop([s EXCEPT ![i + 1] = U32MAX], i + 1)

sub_ubi_mut(s, o) ==
    LET a == sub_ubi_loop(s, o, 0, FALSE, FALSE)
        b == IF a.carry THEN borrow_loop(a.limbs, Len(o)) ELSE a.limbs
    IN  IF a.panic
        THEN [limbs |-> a.limbs, panic |-> TRUE, ovf |-> a.ovf]
        ELSE [limbs |-> remove_suffix_0(b), panic |-> FALSE, ovf |-> a.ovf]

\* the clone is subtracted from; a panic leaves self as it was
sub_ubi(s, o) ==
    LET r == sub_ubi_mut(s, o)
    IN  [limbs |-> IF r.panic THEN s ELSE r.limbs,
         panic |-> r.panic, ovf |-> r.ovf]

\* while self.0[i] == 0 { self.0[i] = u32::MAX; i += 1; }
RECURSIVE zero_run(_, _)
zero_run(s, i) ==
    IF i >= Len(s)
    THEN [limbs |-> s, i |-> i, panic |-> TRUE]
    ELSE IF s[i + 1] = 0
    THEN zero_run([s EXCEPT ![i + 1] = U32MAX], i + 1)
    ELSE [limbs |-> s, i |-> i, panic |-> FALSE]

\* sub_u32_mut without the remove_suffix_0 of its borrow branch
sub_u32_mut_not_stripped(s, k) ==
    IF s[1] >= k
    THEN [limbs |-> [s EXCEPT ![1] = s[1] - k], panic |-> FALSE, ovf |-> FALSE]
    ELSE IF Len(s) > 1
    THEN LET z  == zero_run(s, 1)
             t  == [z.limbs EXCEPT ![z.i + 1] = z.limbs[z.i + 1] - 1]
             v3 == U32MAX - k + s[1] + 1
         IN  IF z.panic
             THEN [limbs |-> z.limbs, panic |-> TRUE, ovf |-> FALSE]
             ELSE [limbs |-> [t EXCEPT ![1] = Wrap(v3)],
                   panic |-> FALSE, ovf |-> ~InU32(v3)]
    ELSE [limbs |-> s, panic |-> TRUE, ovf |-> FALSE]

sub_u32_mut(s, k) ==
    IF s[1] >= k
    THEN [limbs |-> [s EXCEPT ![1] = s[1] - k], panic |-> FALSE, ovf |-> FALSE]
    ELSE IF Len(s) > 1
    THEN LET z  == zero_run(s, 1)
             t  == [z.limbs EXCEPT ![z.i + 1] = z.limbs[z.i + 1] - 1]
             v1 == U32MAX - k
             v2 == v1 + s[1]
             v3 == v2 + 1
         IN  IF z.panic
             THEN [limbs |-> z.limbs, panic |-> TRUE, ovf |-> FALSE]
             ELSE [limbs |-> remove_suffix_0([t EXCEPT ![1] = Wrap(v3)]),
                   panic |-> FALSE,
                   ovf   |-> ~InU32(v1) \/ ~InU32(v2) \/ ~InU32(v3)]
    ELSE [limbs |-> s, panic |-> TRUE, ovf |-> FALSE]

sub_u32(s, k) ==
    LET r == sub_u32_mut(s, k)
    IN  [limbs |-> IF r.panic THEN s ELSE r.limbs,
         panic |-> r.panic, ovf |-> r.ovf]

\* addition is the exact sum, renormalized (spec 4.1)
add_ubi(s, o) == FromNat(ToNat(s) + ToNat(o))

add_u32(s, k) == FromNat(ToNat(s) + k)

(***************************************************************************)
(* The subtraction machine: one UBigInt, self, to which additions and      *)
(* subtractions are applied in any order.  val is the value self ought to  *)
(* hold; gt records that the last operand exceeded self.                   *)
(***************************************************************************)
LimbVals == {0, 1, U32MAX}

Samples(n) ==
    {s \in UNION {[1..k -> LimbVals] : k \in 1..n} : is_valid(s)}

Operands == Samples(MaxLen)

Selves == Samples(MaxLen + 1)

SubOps == {"sub_ubi", "sub_ubi_mut", "sub_u32", "sub_u32_mut"}

InitSub ==
    /\ ubi \in {[pc |-> "ready", self |-> s, val |-> ToNat(s), op |-> "none",
                 gt |-> FALSE, ovf |-> FALSE, nops |-> 0] : s \in Selves}
    /\ rat = Idle /\ sq = Idle /\ pr = Idle

\* the machine after a subtraction of the value o that returned r
Subtracted(name, r, o) ==
    /\ ubi.pc = "ready"
    /\ ubi.nops < MaxOps
    /\ ubi' = [pc   |-> IF r.panic THEN "panicked" ELSE "ready",
               self |-> r.limbs,
               val  |-> IF r.panic THEN ubi.val
                        ELSE IF o > ToNat(ubi.self) THEN ToNat(r.limbs)
                        ELSE ubi.val - o,
               op   |-> name,
               gt   |-> o > ToNat(ubi.self),
               ovf  |-> r.ovf,
               nops |-> ubi.nops + 1]
    /\ UNCHANGED <<rat, sq, pr>>

Added(name, limbs, o) ==
    /\ ubi.pc = "ready"
    /\ ubi.nops < MaxOps
    /\ Len(limbs) <= MaxLen + 1
    /\ ubi' = [ubi EXCEPT !.self = limbs, !.val = ubi.val + o, !.op = name,
                          !.gt = FALSE, !.ovf = FALSE, !.nops = ubi.nops + 1]
    /\ UNCHANGED <<rat, sq, pr>>

Do_sub_ubi ==
    \E o \in Operands : Subtracted("sub_ubi", sub_ubi(ubi.self, o), ToNat(o))

Do_sub_ubi_mut ==
    \E o \in Operands :
        Subtracted("sub_ubi_mut", sub_ubi_mut(ubi.self, o), ToNat(o))

Do_sub_u32 ==
    \E k \in LimbVals : Subtracted("sub_u32", sub_u32(ubi.self, k), k)

Do_sub_u32_mut ==
    \E k \in LimbVals : Subtracted("sub_u32_mut", sub_u32_mut(ubi.self, k), k)

Do_add_ubi ==
    \E o \in Operands : Added("add_ubi", add_ubi(ubi.self, o), ToNat(o))

Do_add_u32 ==
    \E k \in LimbVals : Added("add_u32", add_u32(ubi.self, k), k)

NextSub ==
    \/ Do_sub_ubi
    \/ Do_sub_ubi_mut
    \/ Do_sub_u32
    \/ Do_sub_u32_mut
    \/ Do_add_ubi
    \/ Do_add_u32

SpecSub == InitSub /\ [][NextSub]_vars

(***************************************************************************)
(* Claims about subtraction.                                               *)
(***************************************************************************)

\* C1: every subtraction entry point panics whenever other > self, and never
\* returns a value in that case.
C1_SubPanicsWhenOtherGreater ==
    (ubi.op \in SubOps /\ ubi.gt) => ubi.pc = "panicked"

\* C2: additions and subtractions that never go below zero leave exactly the
\* value they ought to (so a net effect of zero restores the original limbs),
\* sub_ubi(add_ubi(x, y), y) is x, and no limb computation leaves the u32
\* range.
C2_AddSubRoundTrip ==
    ubi.pc = "ready" =>
        /\ ToNat(ubi.self) = ubi.val
        /\ ~ubi.ovf
        /\ \A o \in Operands :
              LET r == sub_ubi(add_ubi(ubi.self, o), o)
              IN  ~r.panic /\ ~r.ovf /\ r.limbs = ubi.self
        /\ \A k \in LimbVals :
              LET r == sub_u32(add_u32(ubi.self, k), k)
              IN  ~r.panic /\ ~r.ovf /\ r.limbs = ubi.self

\* C2 witness: a borrow has run through two zero limbs, after an addition
C2_Witness ==
    /\ ubi.pc = "ready" /\ ubi.nops = 2 /\ ~ubi.gt
    /\ ubi.op = "sub_ubi"
    /\ ubi.self = <<U32MAX, U32MAX>>

\* C3: a subtraction with other <= self leaves a normalized value: at least
\* one limb, a non-zero top limb unless the value is zero, and zero as
\* exactly one zero limb.
C3_SubKeepsNormalized ==
    (ubi.pc = "ready" /\ ubi.op \in SubOps /\ ~ubi.gt) =>
        /\ is_valid(ubi.self)
        /\ (ToNat(ubi.self) = 0 => ubi.self = <<0>>)

\* C3 witness: the borrow branch of sub_u32_mut has emptied the top limb
C3_Witness ==
    /\ ubi.pc = "ready" /\ ~ubi.gt
    /\ ubi.op = "sub_u32_mut"
    /\ ubi.self = <<U32MAX>>
    /\ ubi.val = U32MAX

(***************************************************************************)
(* BigInt.  A BigInt is modelled by the integer it holds; the arithmetic   *)
(* of src/bigint is not part of the sources read here and follows spec 3:  *)
(* division truncates toward zero, a remainder has the dividend's sign.    *)
(***************************************************************************)
Abs(a) == IF a < 0 THEN -a ELSE a

Sign(a) == IF a < 0 THEN -1 ELSE IF a = 0 THEN 0 ELSE 1

div_bi(a, b) == Sign(a) * Sign(b) * (Abs(a) \div Abs(b))

rem_bi(a, b) == Sign(a) * (Abs(a) % Abs(b))

\* Ordering of a against b: -1 Less, 0 Equal, 1 Greater
comp_bi(a, b) == IF a < b THEN -1 ELSE IF a = b THEN 0 ELSE 1

\* gcd_ubi, on the values of its operands
RECURSIVE gcd_loop(_, _)
gcd_loop(a, b) == IF a = 0 THEN b ELSE gcd_loop(b % a, a)

gcd_ubi(a, b) == IF a = 0 THEN b ELSE gcd_loop(b % a, a)

(***************************************************************************)
(* Ratio, src/src/ratio/funcs.rs.  A Ratio is [numer, denom].              *)
(***************************************************************************)
from_denom_and_numer_raw(denom, numer) == [numer |-> numer, denom |-> denom]

from_bi(n) == [numer |-> n, denom |-> 1]

is_neg(r) == r.numer < 0

is_integer(r) == r.denom = 1

is_valid_ratio(r) == r.denom > 0 /\ gcd_ubi(Abs(r.numer), r.denom) = 1

neg(r) == from_denom_and_numer_raw(r.denom, -r.numer)

neg_mut(r) == [r EXCEPT !.numer = -r.numer]

abs(r) == from_denom_and_numer_raw(r.denom, Abs(r.numer))

abs_mut(r) == [r EXCEPT !.numer = Abs(r.numer)]

\* reci that leaves the sign in the denominator
reci_sign_kept(r) ==
    LET result == from_denom_and_numer_raw(r.numer, r.denom)
    IN  [panic |-> result.denom = 0, value |-> result]

\* reci that makes the denominator positive and forgets the numerator
reci_numer_not_negated(r) ==
    LET result == from_denom_and_numer_raw(r.numer, r.denom)
    IN  IF result.denom = 0
        THEN [panic |-> TRUE, value |-> r]
        ELSE [panic |-> FALSE,
              value |-> [numer |-> result.numer, denom |-> Abs(result.denom)]]

\* 1 / self: a panic when the new denominator is zero, else the value
reci(r) ==
    LET result == from_denom_and_numer_raw(r.numer, r.denom)
    IN  IF result.denom = 0
        THEN [panic |-> TRUE, value |-> r]
        ELSE IF result.denom < 0
        THEN [panic |-> FALSE,
              value |-> [numer |-> -result.numer, denom |-> -result.denom]]
        ELSE [panic |-> FALSE, value |-> result]

reci_mut(r) == reci(r)

truncate_bi(r) == div_bi(r.numer, r.denom)

truncate(r) == from_bi(truncate_bi(r))

truncate_mut(r) == [numer |-> div_bi(r.numer, r.denom), denom |-> 1]

frac(r) == from_denom_and_numer_raw(r.denom, rem_bi(r.numer, r.denom))

frac_mut(r) == [r EXCEPT !.numer = rem_bi(r.numer, r.denom)]

truncate_and_frac(r) ==
    LET trun == truncate_bi(r)
    IN  [trun |-> trun,
         frac |-> from_denom_and_numer_raw(r.denom,
                                           r.numer - r.denom * trun)]

\* floor_bi without the is_integer test
floor_bi_integer_forgotten(r) ==
    IF is_neg(r) THEN truncate_bi(r) - 1 ELSE truncate_bi(r)

floor_bi(r) ==
    IF is_neg(r)
    THEN IF is_integer(r) THEN r.numer ELSE truncate_bi(r) - 1
    ELSE truncate_bi(r)

floor(r) == from_bi(floor_bi(r))

\* round_bi that sends an exact half to the truncated value
round_bi_half_down(r) ==
    LET tf == truncate_and_frac(r)
        numer_double_abs == Abs(tf.frac.numer * 2)
    IN  IF comp_bi(numer_double_abs, tf.frac.denom) <= 0
        THEN tf.trun
        ELSE IF is_neg(r) THEN tf.trun - 1 ELSE tf.trun + 1

round_bi(r) ==
    LET tf == truncate_and_frac(r)
        numer_double_abs == Abs(tf.frac.numer * 2)
    IN  IF comp_bi(numer_double_abs, tf.frac.denom) = -1
        THEN tf.trun
        ELSE IF is_neg(r) THEN tf.trun - 1 ELSE tf.trun + 1

round(r) == from_bi(round_bi(r))

(***************************************************************************)
(* The Ratio machine: one Ratio, self, to which the operations are applied *)
(* in any order.  x is the value the last operation was applied to.        *)
(***************************************************************************)
ValidRatios ==
    {r \in [numer : (-MaxNumer)..MaxNumer, denom : 1..MaxDenom] :
        is_valid_ratio(r)}

InitRatio ==
    /\ rat \in {[pc |-> "ready", self |-> r, x |-> r, op |-> "none"] :
                r \in ValidRatios}
    /\ ubi = Idle /\ sq = Idle /\ pr = Idle

Returned(name, value) ==
    /\ rat.pc = "ready"
    /\ rat' = [pc |-> "ready", self |-> value, x |-> rat.self, op |-> name]
    /\ UNCHANGED <<ubi, sq, pr>>

MayPanic(name, r) ==
    /\ rat.pc = "ready"
    /\ rat' = [pc   |-> IF r.panic THEN "panicked" ELSE "ready",
               self |-> r.value, x |-> rat.self, op |-> name]
    /\ UNCHANGED <<ubi, sq, pr>>

Do_neg == Returned("neg", neg(rat.self))

Do_neg_mut == Returned("neg_mut", neg_mut(rat.self))

Do_abs == Returned("abs", abs(rat.self))

Do_abs_mut == Returned("abs_mut", abs_mut(rat.self))

Do_reci == MayPanic("reci", reci(rat.self))

Do_reci_mut == MayPanic("reci_mut", reci_mut(rat.self))

Do_truncate == Returned("truncate", truncate(rat.self))

Do_truncate_mut == Returned("truncate_mut", truncate_mut(rat.self))

Do_frac == Returned("frac", frac(rat.self))

Do_frac_mut == Returned("frac_mut", frac_mut(rat.self))

Do_truncate_and_frac ==
    Returned("truncate_and_frac", truncate_and_frac(rat.self).frac)

Do_floor == Returned("floor", floor(rat.self))

Do_round == Returned("round", round(rat.self))

NextRatio ==
    \/ Do_neg
    \/ Do_neg_mut
    \/ Do_abs
    \/ Do_abs_mut
    \/ Do_reci
    \/ Do_reci_mut
    \/ Do_truncate
    \/ Do_truncate_mut
    \/ Do_frac
    \/ Do_frac_mut
    \/ Do_truncate_and_frac
    \/ Do_floor
    \/ Do_round

SpecRatio == InitRatio /\ [][NextRatio]_vars

(***************************************************************************)
(* Claims about Ratio.                                                     *)
(***************************************************************************)

\* C4: every Ratio the operations produce has a positive denominator and is
\* in lowest terms; reci and reci_mut panic on the zero rational, and only
\* on it.
C4_RatioStaysValid ==
    /\ rat.pc = "ready" =>
          /\ rat.self.denom > 0
          /\ gcd_ubi(Abs(rat.self.numer), rat.self.denom) = 1
    /\ rat.pc = "panicked" <=>
          (rat.op \in {"reci", "reci_mut"} /\ rat.x.numer = 0)

\* C4 witness: the reciprocal of a negative non-integer has been taken
C4_Witness ==
    /\ rat.pc = "ready" /\ rat.op = "reci"
    /\ rat.x = [numer |-> -3, denom |-> 7]
    /\ rat.self = [numer |-> -7, denom |-> 3]

\* C9: round(x) is the integer nearest to x, an exact half going away from
\* zero; it is t = truncate(x) when twice |numerator(x - t)| is below the
\* denominator, else t + 1 for x >= 0 and t - 1 for x < 0.
C9_RoundHalfAwayFromZero ==
    (rat.pc = "ready" /\ rat.op = "round") =>
        LET n == rat.x.numer
            d == rat.x.denom
            r == rat.self.numer
            t == truncate(rat.x).numer
            f == rat.x.numer - t * rat.x.denom
        IN  /\ rat.self.denom = 1
            /\ 2 * Abs(n - r * d) <= d
            /\ (2 * Abs(n - r * d) = d => Abs(r) * d > Abs(n))
            /\ Abs(t) * d <= Abs(n) /\ Abs(n) < (Abs(t) + 1) * d
            /\ r = IF 2 * Abs(f) < d THEN t
                   ELSE IF n >= 0 THEN t + 1 ELSE t - 1

\* C9 witness: -5/2 has been rounded to -3
C9_Witness ==
    /\ rat.pc = "ready" /\ rat.op = "round"
    /\ rat.x = [numer |-> -5, denom |-> 2]
    /\ rat.self = [numer |-> -3, denom |-> 1]

\* C10: floor_bi(x) is the largest integer not above x; it is truncate_bi(x)
\* when x >= 0 or x is an integer and truncate_bi(x) - 1 when x is a negative
\* non-integer, truncate_bi(x) being numerator / denominator rounded toward
\* zero.
C10_FloorIsLargestIntegerBelow ==
    (rat.pc = "ready" /\ rat.op = "floor") =>
        LET n == rat.x.numer
            d == rat.x.denom
            fl == rat.self.numer
            t == truncate_bi(rat.x)
        IN  /\ rat.self.denom = 1
            /\ fl = floor_bi(rat.x)
            /\ fl * d <= n /\ n < (fl + 1) * d
            /\ Abs(t) * d <= Abs(n) /\ Abs(n) < (Abs(t) + 1) * d
            /\ (t # 0 => Sign(t) = Sign(n))
            /\ ((n >= 0 \/ d = 1) => fl = t)
            /\ ((n < 0 /\ d # 1) => fl = t - 1)

\* C10 witness: the floor of -3.7 has been taken, and is -4
C10_Witness ==
    /\ rat.pc = "ready" /\ rat.op = "floor"
    /\ rat.x = [numer |-> -37, denom |-> 10]
    /\ rat.self = [numer |-> -4, denom |-> 1]

\* C11: for a non-zero valid x = n/d, reci(x) is (sign(n) * d) / |n|, its
\* denominator positive, reci(reci(x)) is x again, and reci_mut leaves in
\* self the value reci returns.
C11_ReciSwapsAndKeepsSign ==
    (rat.op \in {"reci", "reci_mut"} /\ rat.x.numer # 0) =>
        LET n == rat.x.numer
            d == rat.x.denom
        IN  /\ rat.pc = "ready"
            /\ rat.self.numer = Sign(n) * d
            /\ rat.self.denom = Abs(n)
            /\ rat.self.denom > 0
            /\ ~reci(rat.self).panic
            /\ reci(rat.self).value = rat.x
            /\ reci_mut(rat.x) = reci(rat.x)
            /\ rat.self = reci(rat.x).value

\* C11 witness: reci_mut has turned -2/9 into -9/2
C11_Witness ==
    /\ rat.pc = "ready" /\ rat.op = "reci_mut"
    /\ rat.x = [numer |-> -2, denom |-> 9]
    /\ rat.self = [numer |-> -9, denom |-> 2]

(***************************************************************************)
(* UBigInt::sqrt, src/src/ubigint/funcs.rs.  The values of self, div and   *)
(* result are kept as numbers; the limbs are formed where the code looks   *)
(* at them (len, sub_ubi_mut).                                             *)
(***************************************************************************)

\* shift_right(n) drops n whole limbs (log2_accurate counts 32 bits for each)
shift_right(v, n) == v \div Pow(Base, n)

\* UBigInt::from_u32(1 << 30): a quarter of the limb radix
SqrtStart == Base \div 4

sqrt_init(n) ==
    [pc     |-> "up",
     self   |-> n,
     div    |-> IF Len(FromNat(n)) > 2 THEN shift_right(n, 1) ELSE SqrtStart,
     result |-> 0,
     subbed |-> FALSE,
     gt     |-> FALSE]

\* div.div_u32_mut(4) without the reset of a small div to one
quarter(d) == d \div 4

\* div.div_u32_mut(4); if div.lt_u32(4) { div = UBigInt::one(); }
quarter_or_one(d) == IF d \div 4 < 4 THEN 1 ELSE d \div 4

\* one evaluation of a while condition of sqrt, and of what follows it
sqrt_step(st) ==
    IF st.pc = "up"
    THEN IF st.result * st.result < st.self
         THEN [st EXCEPT !.result = st.result + st.div]
         ELSE [st EXCEPT !.div = quarter_or_one(st.div), !.pc = "down"]
    ELSE IF st.result * st.result > st.self
         THEN LET r == sub_ubi_mut(FromNat(st.result), FromNat(st.div))
              IN  [st EXCEPT !.result = ToNat(r.limbs),
                             !.subbed = TRUE,
                             !.gt     = st.gt \/ st.div > st.result,
                             !.pc     = IF r.panic THEN "panicked" ELSE "down"]
         ELSE [st EXCEPT !.div = st.div \div 4,
                         !.pc  = IF st.div \div 4 = 0 THEN "done" ELSE "up"]

RECURSIVE sqrt_run(_)
sqrt_run(st) ==
    IF st.pc \in {"done", "panicked"} THEN st ELSE sqrt_run(sqrt_step(st))

sqrt(n) == sqrt_run(sqrt_init(n)).result

SqrtInputs ==
    (0..SqrtMaxN)
        \cup {Pow(Base, 2) + k : k \in (-SqrtWindow)..SqrtWindow}
        \cup {Pow(Base, 3) + k : k \in (-SqrtWindow)..SqrtWindow}

InitSqrt ==
    /\ sq \in {sqrt_init(n) : n \in SqrtInputs}
    /\ ubi = Idle /\ rat = Idle /\ pr = Idle

sqrt_up ==
    /\ sq.pc = "up"
    /\ sq' = sqrt_step(sq)
    /\ UNCHANGED <<ubi, rat, pr>>

sqrt_down ==
    /\ sq.pc = "down"
    /\ sq' = sqrt_step(sq)
    /\ UNCHANGED <<ubi, rat, pr>>

NextSqrt ==
    \/ sqrt_up
    \/ sqrt_down

\* sqrt is a sequential loop: a step that can be taken is taken
SpecSqrt == InitSqrt /\ [][NextSqrt]_vars /\ WF_vars(NextSqrt)

(***************************************************************************)
(* Claims about sqrt.                                                      *)
(***************************************************************************)
SqrtSafe ==
    /\ sq.pc # "panicked"
    /\ ~sq.gt
    /\ sq.pc = "done" =>
          /\ sq.result * sq.result <= sq.self
          /\ sq.self < (sq.result + 1) * (sq.result + 1)

\* C5: sqrt(n) terminates and returns r with r * r <= n < (r + 1) * (r + 1),
\* and a decreasing pass never subtracts a div larger than result.
C5_SqrtIsFloorRoot == [](SqrtSafe) /\ <>(sq.pc = "done")

\* C5 witness: sqrt has returned for a three-limb n that is no square, after
\* at least one subtraction
C5_Witness ==
    /\ sq.pc = "done" /\ sq.subbed
    /\ sq.self = Base * Base + 3
    /\ sq.result * sq.result < sq.self

(***************************************************************************)
(* UBigInt::is_prime, src/src/ubigint/funcs.rs.  The result records the    *)
(* answer, the path taken, the candidates that were divided by, and        *)
(* whether the u32 candidate overflowed (the call is cut there: a debug    *)
(* build panics, a release build wraps).                                   *)
(***************************************************************************)

\* the trial-division bound without its + 1
iter_until_short(n) == sqrt(n)

\* let iter_until = self.sqrt().add_u32(1);
iter_until(n) == sqrt(n) + 1

Answer(a, path, tested) ==
    [ans |-> a, ovf |-> FALSE, panic |-> FALSE, path |-> path,
     tested |-> tested]

Overflowed(path, tested) ==
    [ans |-> FALSE, ovf |-> TRUE, panic |-> FALSE, path |-> path,
     tested |-> tested]

\* while div < n { if self_ % div as u64 == 0 { return false; } div += 2; }
RECURSIVE native_loop(_, _, _, _)
native_loop(self_, n, div, tested) ==
    IF div < n
    THEN IF self_ % div = 0
         THEN Answer(FALSE, "native", tested \cup {div})
         ELSE IF div + 2 > U32MAX
         THEN Overflowed("native", tested \cup {div})
         ELSE native_loop(self_, n, div + 2, tested \cup {div})
    ELSE Answer(TRUE, "native", tested)

\* while div.mul_ubi(&div).leq_ubi(self) { ... div.add_u32_mut(2); }
RECURSIVE fallback_big_loop(_, _, _)
fallback_big_loop(self, div, tested) ==
    IF div * div <= self
    THEN IF self % div = 0
         THEN Answer(FALSE, "fallback", tested \cup {div})
         ELSE fallback_big_loop(self, div + 2, tested \cup {div})
    ELSE Answer(TRUE, "fallback", tested)

\* for _ in 0..(u32::MAX / 2 - 1) { ... div += 2; }, then the big-integer loop
\* from u32::MAX + u32::MAX % 2 + 1
RECURSIVE fallback_u32_loop(_, _, _, _)
fallback_u32_loop(self, div, i, tested) ==
    IF i < U32MAX \div 2 - 1
    THEN IF self % div = 0
         THEN Answer(FALSE, "fallback", tested \cup {div})
         ELSE IF div + 2 > U32MAX
         THEN Overflowed("fallback", tested \cup {div})
         ELSE fallback_u32_loop(self, div + 2, i + 1, tested \cup {div})
    ELSE fallback_big_loop(self, U32MAX + (U32MAX % 2) + 1, tested)

is_prime(self) ==
    LET limbs == FromNat(self)
    IN  IF limbs[1] % 2 = 0
        THEN Answer(limbs[1] = 2 /\ Len(limbs) = 1, "even", {})
        ELSE IF self = 1
        THEN Answer(FALSE, "one", {})
        ELSE IF iter_until(self) <= U32MAX
        THEN IF Len(limbs) > 2
             THEN [Answer(FALSE, "native", {}) EXCEPT !.panic = TRUE]
             ELSE native_loop(self, iter_until(self), 3, {})
        ELSE fallback_u32_loop(self, 3, 0, {})

(***************************************************************************)
(* The prime machine: is_prime or prime_factorial is called on self.       *)
(* prime_factorial runs one loop test at a time; inner says that the       *)
(* machine is inside the inner while of the loop at pc.                    *)
(***************************************************************************)
PrimeInputs == 0..(U32MAX * U32MAX + PrimeExtra)

InitPrime ==
    /\ pr \in {[pc |-> "start", self |-> n] : n \in PrimeInputs}
    /\ ubi = Idle /\ rat = Idle /\ sq = Idle

Do_is_prime ==
    /\ pr.pc = "start"
    /\ pr' = [pc |-> "is_prime_done", self |-> pr.self, r |-> is_prime(pr.self)]
    /\ UNCHANGED <<ubi, rat, sq>>

\* let mut self_clone = self.clone(); let mut result = vec![];
pf_enter ==
    /\ pr.pc = "start"
    /\ pr' = [pc |-> "pf_two", self |-> pr.self, self_clone |-> pr.self,
              result |-> <<>>, div |-> 0, inner |-> FALSE, wrapped |-> FALSE]
    /\ UNCHANGED <<ubi, rat, sq>>

\* while self_clone.gt_u32(1) && self_clone.rem_pow2(2).is_zero() { ... }
\* let mut div = 3;
pf_two ==
    /\ pr.pc = "pf_two"
    /\ pr' = IF pr.self_clone > 1 /\ pr.self_clone % 2 = 0
             THEN [pr EXCEPT !.self_clone = pr.self_clone \div 2,
                             !.result = Append(pr.result, 2)]
             ELSE [pr EXCEPT !.pc = "pf_u32", !.div = 3]
    /\ UNCHANGED <<ubi, rat, sq>>

\* while self_clone.geq_ubi(&UBigInt::from_u64(div as u64 * div as u64)) {
\* ... } let mut div = UBigInt::from_u32(u32::MAX);
pf_u32_test ==
    /\ pr.pc = "pf_u32" /\ ~pr.inner
    /\ pr' = IF pr.self_clone >= pr.div * pr.div
             THEN [pr EXCEPT !.inner = TRUE]
             ELSE [pr EXCEPT !.pc = "pf_big", !.div = U32MAX]
    /\ UNCHANGED <<ubi, rat, sq>>

\* while self_clone.rem_u32(div).is_zero() { self_clone.div_u32_mut(div);
\* result.push(UBigInt::from_u32(div)); }
pf_u32_divide ==
    /\ pr.pc = "pf_u32" /\ pr.inner
    /\ pr.self_clone % pr.div = 0
    /\ Len(pr.result) < MaxFactors
    /\ pr' = [pr EXCEPT !.self_clone = pr.self_clone \div pr.div,
                        !.result = Append(pr.result, pr.div)]
    /\ UNCHANGED <<ubi, rat, sq>>

\* div += 2; within the u32 range
pf_u32_next ==
    /\ pr.pc = "pf_u32" /\ pr.inner
    /\ pr.self_clone % pr.div # 0
    /\ pr.div + 2 <= U32MAX
    /\ pr' = [pr EXCEPT !.div = pr.div + 2, !.inner = FALSE]
    /\ UNCHANGED <<ubi, rat, sq>>

\* div += 2; past u32::MAX in a build with overflow checks: a panic
pf_u32_overflow_panic ==
    /\ pr.pc = "pf_u32" /\ pr.inner
    /\ pr.self_clone % pr.div # 0
    /\ pr.div + 2 > U32MAX
    /\ pr' = [pr EXCEPT !.pc = "pf_panicked"]
    /\ UNCHANGED <<ubi, rat, sq>>

\* div += 2; past u32::MAX in a build without overflow checks: div wraps
pf_u32_overflow_wrap ==
    /\ pr.pc = "pf_u32" /\ pr.inner
    /\ pr.self_clone % pr.div # 0
    /\ pr.div + 2 > U32MAX
    /\ pr' = [pr EXCEPT !.div = Wrap(pr.div + 2), !.inner = FALSE,
                        !.wrapped = TRUE]
    /\ UNCHANGED <<ubi, rat, sq>>

\* while self_clone.geq_ubi(&div.mul_ubi(&div)) { while
\* self_clone.rem_ubi(&div).is_zero() { ... } div.add_u32_mut(2); }
\* if self_clone.gt_u32(1) || result.len() == 0 { result.push(self_clone); }
pf_big ==
    /\ pr.pc = "pf_big"
    /\ pr' = IF pr.inner
             THEN IF pr.self_clone % pr.div = 0
                  THEN [pr EXCEPT !.self_clone = pr.self_clone \div pr.div,
                                  !.result = Append(pr.result, pr.div)]
                  ELSE [pr EXCEPT !.div = pr.div + 2, !.inner = FALSE]
             ELSE IF pr.self_clone >= pr.div * pr.div
                  THEN [pr EXCEPT !.inner = TRUE]
                  ELSE [pr EXCEPT
                          !.pc = "pf_done",
                          !.result =
                              IF pr.self_clone > 1 \/ Len(pr.result) = 0
                              THEN Append(pr.result, pr.self_clone)
                              ELSE pr.result]
    /\ UNCHANGED <<ubi, rat, sq>>

NextPrime ==
    \/ Do_is_prime
    \/ pf_enter
    \/ pf_two
    \/ pf_u32_test
    \/ pf_u32_divide
    \/ pf_u32_next
    \/ pf_u32_overflow_panic
    \/ pf_u32_overflow_wrap
    \/ pf_big

SpecPrime == InitPrime /\ [][NextPrime]_vars

(***************************************************************************)
(* Claims about is_prime and prime_factorial.                              *)
(***************************************************************************)
RECURSIVE FloorRootFrom(_, _)
FloorRootFrom(n, r) ==
    IF (r + 1) * (r + 1) > n THEN r ELSE FloorRootFrom(n, r + 1)

FloorRoot(n) == FloorRootFrom(n, 0)

IsPrimeNumber(n) == n >= 2 /\ \A d \in 2..FloorRoot(n) : n % d # 0

RECURSIVE Product(_)
Product(s) == IF s = <<>> THEN 1 ELSE Head(s) * Product(Tail(s))

OddCandidates(n) == {d \in 3..FloorRoot(n) : d % 2 = 1}

InPrimeFactorial ==
    pr.pc \in {"pf_two", "pf_u32", "pf_big", "pf_done", "pf_panicked"}

\* what prime_factorial returned is the factorization of self
PfReturnedRight ==
    pr.pc = "pf_done" =>
        /\ Product(pr.result) = pr.self
        /\ pr.self >= 2 =>
              /\ \A i \in 1..Len(pr.result) : IsPrimeNumber(pr.result[i])
              /\ Len(pr.result) = 1 <=> is_prime(pr.self).ans
        /\ pr.self = 1 => pr.result = <<1>>

\* C6: for every n >= 2 prime_factorial(n) returns a list of primes whose
\* product is n, of exactly one element iff is_prime(n); for n = 1 it returns
\* the singleton of 1.
C6_PrimeFactorialReturnsFactors ==
    (InPrimeFactorial /\ pr.self >= 1) =>
        /\ pr.pc # "pf_panicked"
        /\ ~pr.wrapped
        /\ PfReturnedRight

\* C7: for every n, also one whose cofactor stays at least (2^32 - 1)^2, the
\* 32-bit candidate div never overflows (no panic, no wrap to a small value)
\* and prime_factorial goes on with big-integer divisors, up to a result
\* whose product is n.
C7_CandidateNeverOverflows ==
    InPrimeFactorial =>
        /\ pr.pc # "pf_panicked"
        /\ ~pr.wrapped
        /\ pr.div <= U32MAX \/ pr.pc \in {"pf_big", "pf_done"}
        /\ pr.pc = "pf_done" => Product(pr.result) = pr.self

\* C8: is_prime(n) is true exactly when n is prime: false for 0, 1 and the
\* even numbers but 2; for an odd n >= 3 every odd candidate up to
\* floor(sqrt(n)) is divided by on the native path (taken when
\* floor(sqrt(n)) + 1 fits a u32) and on the fallback path, but for
\* u32::MAX at the hand-over, which a candidate divided by before divides;
\* the u32 candidate never overflows.
C8_IsPrimeIsPrimality ==
    pr.pc = "is_prime_done" =>
        LET n == pr.self
            r == pr.r
            skipped == OddCandidates(n) \ r.tested
        IN  /\ ~r.ovf /\ ~r.panic
            /\ r.ans <=> IsPrimeNumber(n)
            /\ n \in {0, 1} => ~r.ans
            /\ (n % 2 = 0 /\ n # 2) => ~r.ans
            /\ (n % 2 = 1 /\ n >= 3) =>
                  /\ r.path = "native" <=> FloorRoot(n) + 1 <= U32MAX
                  /\ r.path \in {"native", "fallback"}
                  /\ r.tested \subseteq {d \in 3..n : d % 2 = 1}
                  /\ r.ans =>
                        /\ skipped \subseteq {U32MAX}
                        /\ \A c \in skipped :
                              \E d \in r.tested : d < c /\ c % d = 0

\* C8 witness: a prime above Base^2 has gone through the fallback path and
\* its big-integer loop
C8_Witness ==
    /\ pr.pc = "is_prime_done"
    /\ pr.r.ans /\ pr.r.path = "fallback"
    /\ U32MAX + 2 \in pr.r.tested
    /\ pr.self > Base * Base

(***************************************************************************)
(* Numerals.  factorial, fibonacci, log2 and log2_accurate hold constants  *)
(* of the full 32-bit limb width and values of many limbs, which numbers   *)
(* of the scaled limbs cannot hold: their values are kept as numerals,     *)
(* sequences of digits of radix 2^10, least significant first, zero being  *)
(* the empty sequence.  Dec(<<2, 192, 834, 560>>) is the numeral of the    *)
(* number written 2192834560.                                              *)
(***************************************************************************)
RadixBits == 10

Radix == Pow(2, RadixBits)

RECURSIVE Num(_)
Num(k) == IF k = 0 THEN <<>> ELSE <<k % Radix>> \o Num(k \div Radix)

RECURSIVE StripZeros(_)
StripZeros(s) ==
    IF s # <<>> /\ s[Len(s)] = 0
    THEN StripZeros(SubSeq(s, 1, Len(s) - 1))
    ELSE s

DigitAt(a, i) == IF i <= Len(a) THEN a[i] ELSE 0

\* digits lo..hi of a + b + carry, and the carry out of digit hi; the range
\* is halved so that long numerals do not nest deeply
RECURSIVE NAddRange(_, _, _, _, _)
NAddRange(a, b, lo, hi, carry) ==
    IF lo = hi
    THEN LET x == DigitAt(a, lo) + DigitAt(b, lo) + carry
         IN  [digits |-> <<x % Radix>>, carry |-> x \div Radix]
    ELSE LET mid == (lo + hi) \div 2
             low == NAddRange(a, b, lo, mid, carry)
             high == NAddRange(a, b, mid + 1, hi, low.carry)
         IN  [digits |-> low.digits \o high.digits, carry |-> high.carry]

NAdd(a, b) ==
    LET n == IF Len(a) < Len(b) THEN Len(b) ELSE Len(a)
    IN  IF n = 0
        THEN <<>>
        ELSE LET r == NAddRange(a, b, 1, n, 0)
             IN  r.digits \o Num(r.carry)

RECURSIVE NMulRange(_, _, _, _, _)
NMulRange(a, k, lo, hi, carry) ==
    IF lo = hi
    THEN LET x == a[lo] * k + carry
         IN  [digits |-> <<x % Radix>>, carry |-> x \div Radix]
    ELSE LET mid == (lo + hi) \div 2
             low == NMulRange(a, k, lo, mid, carry)
             high == NMulRange(a, k, mid + 1, hi, low.carry)
         IN  [digits |-> low.digits \o high.digits, carry |-> high.carry]

\* a times a number k below 10^6
NMulSmall(a, k) ==
    IF k = 0 \/ a = <<>>
    THEN <<>>
    ELSE LET r == NMulRange(a, k, 1, Len(a), 0)
         IN  r.digits \o Num(r.carry)

\* the value of decimal chunks of three digits, the first n of them
RECURSIVE DecValue(_, _)
DecValue(chunks, n) ==
    IF n = 0
    THEN <<>>
    ELSE NAdd(NMulSmall(DecValue(chunks, n - 1), 1000), Num(chunks[n]))

Dec(chunks) == DecValue(chunks, Len(chunks))

\* the sum of a[i] * b[j] over i + j = k + 1, taken as the size of a bag
\* that holds a[i] * b[j] + 1 copies of i
ConvolutionAt(a, b, k) ==
    LET lo == IF k - Len(b) + 1 > 1 THEN k - Len(b) + 1 ELSE 1
        hi == IF k < Len(a) THEN k ELSE Len(a)
    IN  BagCardinality([i \in lo..hi |-> a[i] * b[k + 1 - i] + 1])
            - (hi - lo + 1)

\* a times b, for numerals of up to 2000 digits
NMul(a, b) ==
    IF a = <<>> \/ b = <<>>
    THEN <<>>
    ELSE LET raw == [k \in 1..(Len(a) + Len(b) - 1) |->
                         ConvolutionAt(a, b, k)]
             r == NAddRange(raw, <<>>, 1, Len(raw), 0)
         IN  r.digits \o Num(r.carry)

\* -1, 0, 1 as a is below, equal to, above b
RECURSIVE NCmp(_, _)
NCmp(a, b) ==
    IF Len(a) # Len(b)
    THEN IF Len(a) < Len(b) THEN -1 ELSE 1
    ELSE IF a = <<>>
    THEN 0
    ELSE LET top == NCmp(Tail(a), Tail(b))
         IN  IF top # 0 THEN top ELSE comp_bi(Head(a), Head(b))

NLess(a, b) == NCmp(a, b) = -1

\* digits hi down to lo of (rem * Radix^(hi - lo + 1) + a[lo..hi]) / k, and
\* the remainder
RECURSIVE NDivRange(_, _, _, _, _)
NDivRange(a, k, lo, hi, rem) ==
    IF lo = hi
    THEN LET x == rem * Radix + a[lo]
         IN  [digits |-> <<x \div k>>, rem |-> x % k]
    ELSE LET mid == (lo + hi) \div 2
             high == NDivRange(a, k, mid + 1, hi, rem)
             low == NDivRange(a, k, lo, mid, high.rem)
         IN  [digits |-> low.digits \o high.digits, rem |-> low.rem]

\* a divided by a number k below 10^6, rounded down
NDivSmall(a, k) ==
    IF a = <<>>
    THEN a
    ELSE StripZeros(NDivRange(a, k, 1, Len(a), 0).digits)

NPow2(n) == [i \in 1..(n \div RadixBits) |-> 0] \o <<Pow(2, n % RadixBits)>>

\* a divided by 2^bits, rounded down
NShiftRight(a, bits) ==
    LET q == bits \div RadixBits
    IN  IF Len(a) <= q
        THEN <<>>
        ELSE NDivSmall(SubSeq(a, q + 1, Len(a)), Pow(2, bits % RadixBits))

RECURSIVE DigitBits(_)
DigitBits(d) == IF d = 0 THEN 0 ELSE 1 + DigitBits(d \div 2)

\* the number of bits of a, none for zero
NBits(a) ==
    IF a = <<>>
    THEN 0
    ELSE RadixBits * (Len(a) - 1) + DigitBits(a[Len(a)])

Two32 == NPow2(32)

Two64 == NPow2(64)

Two96 == NPow2(96)

Two128 == NPow2(128)

\* UBigInt::from_raw: the value of 32-bit limbs, least significant first
RECURSIVE FromRawRange(_, _, _)
FromRawRange(limbs, lo, hi) ==
    IF lo = hi
    THEN limbs[lo]
    ELSE LET mid == (lo + hi) \div 2
         IN  NAdd(FromRawRange(limbs, lo, mid),
                  NMul(FromRawRange(limbs, mid + 1, hi),
                       NPow2(32 * (mid - lo + 1))))

from_raw(limbs) ==
    IF limbs = <<>> THEN <<>> ELSE FromRawRange(limbs, 1, Len(limbs))

(***************************************************************************)
(* UBigInt::factorial and UBigInt::fibonacci, src/src/ubigint/funcs.rs.    *)
(***************************************************************************)
\* vec![2192834560, 566454140], "factorial(20)"
Factorial20Limbs ==
    <<Dec(<<2, 192, 834, 560>>), Dec(<<566, 454, 140>>)>>

\* the 23 limbs of "factorial(128)"
Factorial128Limbs ==
    <<Dec(<<0>>), Dec(<<0>>),
      Dec(<<0>>), Dec(<<2, 147, 483, 648>>),
      Dec(<<1, 653, 232, 837>>), Dec(<<595, 720, 861>>),
      Dec(<<948, 844, 160>>), Dec(<<1, 991, 672, 462>>),
      Dec(<<2, 500, 910, 141>>), Dec(<<2, 421, 394, 908>>),
      Dec(<<1, 199, 558, 731>>), Dec(<<684, 6, 397>>),
      Dec(<<4, 97, 118, 94>>), Dec(<<3, 861, 115, 933>>),
      Dec(<<3, 624, 737, 256>>), Dec(<<703, 871, 983>>),
      Dec(<<1, 875, 727, 135>>), Dec(<<2, 498, 653, 150>>),
      Dec(<<380, 736, 459>>), Dec(<<2, 256, 750, 694>>),
      Dec(<<3, 845, 178, 240>>), Dec(<<3, 753, 984, 225>>),
      Dec(<<4, 581>>)>>

\* "fibonacci(186)"
Fibonacci186Limbs ==
    <<Dec(<<858, 943, 736>>), Dec(<<3, 366, 396, 219>>),
      Dec(<<4, 196, 493, 967>>), Dec(<<4, 200, 843, 481>>)>>

\* "fibonacci(185)"
Fibonacci185Limbs ==
    <<Dec(<<3, 883, 453, 837>>), Dec(<<806, 826, 839>>),
      Dec(<<1, 203, 823, 756>>), Dec(<<2, 596, 264, 53>>)>>

\* [0, 1, 1, 2, 3, 5, 8, 13, 21, 34, 55, 89, 144, 233][n], from index 0
FibonacciTable == <<0, 1, 1, 2, 3, 5, 8, 13, 21, 34, 55, 89, 144, 233>>

\* a threshold of 0x10_000_000, past what a u32 int_buffer can carry
IntBufferFullLate == Dec(<<268, 435, 456>>)

\* int_buffer > 0x1_000_000
IntBufferFull == Dec(<<16, 777, 216>>)

Factorial20 == from_raw(Factorial20Limbs)

Factorial128 == from_raw(Factorial128Limbs)

Fibonacci186 == from_raw(Fibonacci186Limbs)

Fibonacci185 == from_raw(Fibonacci185Limbs)

(***************************************************************************)
(* The factorial / fibonacci machine, in ubi.  As factorial_test and       *)
(* fibonacci_test do, it goes through n = 0, 1, 2, ... keeping the naive   *)
(* recurrences (acc = n!, fibos = <<F(n), F(n + 1)>>), and calls           *)
(* factorial(n) or fibonacci(n), one loop iteration at a time.  An         *)
(* accumulator that leaves its width ends the call at "overflowed" (a      *)
(* panic with overflow checks, a wrong value without them).                *)
(***************************************************************************)
InitSeries ==
    /\ ubi = [pc |-> "start", n |-> 0, acc |-> Num(1),
              fibos |-> <<Num(0), Num(1)>>]
    /\ rat = Idle /\ sq = Idle /\ pr = Idle

\* acc.mul_u32_mut(n); fibos.push(fibos[i - 1].add_ubi(&fibos[i - 2]))
test_next ==
    /\ ubi.pc = "start" /\ ubi.n < MaxArg
    /\ ubi' = [pc |-> "start", n |-> ubi.n + 1,
               acc |-> NMulSmall(ubi.acc, ubi.n + 1),
               fibos |-> <<ubi.fibos[2], NAdd(ubi.fibos[1], ubi.fibos[2])>>]
    /\ UNCHANGED <<rat, sq, pr>>

FactorialState(pc, i, result, buffer) ==
    [pc |-> pc, fn |-> "factorial", n |-> ubi.n, i |-> i,
     result |-> result, buffer |-> buffer,
     path |-> IF ubi.pc = "start" THEN pc ELSE ubi.path,
     naive |-> IF ubi.pc = "start" THEN ubi.acc ELSE ubi.naive]

factorial_enter ==
    /\ ubi.pc = "start"
    /\ ubi' = IF ubi.n < 21
              THEN FactorialState("fac_u64", 2, Num(1), Num(1))
              ELSE IF ubi.n < 129
              THEN FactorialState("fac_u32", 21, Factorial20, Num(1))
              ELSE FactorialState("fac_big", 129, Factorial128, Num(1))
    /\ UNCHANGED <<rat, sq, pr>>

\* for i in 2..(n + 1) { result *= i; } on a u64
factorial_u64_loop ==
    /\ ubi.pc = "fac_u64" /\ ubi.i <= ubi.n
    /\ LET result == NMulSmall(ubi.result, ubi.i)
       IN  ubi' = IF NLess(result, Two64)
                  THEN FactorialState("fac_u64", ubi.i + 1, result,
                                      ubi.buffer)
                  ELSE FactorialState("overflowed", ubi.i, result,
                                      ubi.buffer)
    /\ UNCHANGED <<rat, sq, pr>>

factorial_u64_return ==
    /\ ubi.pc = "fac_u64" /\ ubi.i > ubi.n
    /\ ubi' = FactorialState("done", ubi.i, ubi.result, ubi.buffer)
    /\ UNCHANGED <<rat, sq, pr>>

\* int_buffer *= i on a u32, flushed into result above 0x1_000_000
factorial_u32_loop ==
    /\ ubi.pc = "fac_u32" /\ ubi.i <= ubi.n
    /\ LET int_buffer == NMulSmall(ubi.buffer, ubi.i)
       IN  ubi' = IF ~NLess(int_buffer, Two32)
                  THEN FactorialState("overflowed", ubi.i, ubi.result,
                                      int_buffer)
                  ELSE IF NLess(IntBufferFull, int_buffer)
                  THEN FactorialState("fac_u32", ubi.i + 1,
                                      NMul(ubi.result, int_buffer), Num(1))
                  ELSE FactorialState("fac_u32", ubi.i + 1, ubi.result,
                                      int_buffer)
    /\ UNCHANGED <<rat, sq, pr>>

\* if int_buffer > 1 { result.mul_u32_mut(int_buffer); } result
factorial_u32_return ==
    /\ ubi.pc = "fac_u32" /\ ubi.i > ubi.n
    /\ ubi' = IF NLess(Num(1), ubi.buffer)
              THEN FactorialState("done", ubi.i,
                                  NMul(ubi.result, ubi.buffer), Num(1))
              ELSE FactorialState("done", ubi.i, ubi.result, ubi.buffer)
    /\ UNCHANGED <<rat, sq, pr>>

\* buffer.mul_u32_mut(i), flushed into result when buffer.len() > 3
factorial_big_loop ==
    /\ ubi.pc = "fac_big" /\ ubi.i <= ubi.n
    /\ LET buffer == NMulSmall(ubi.buffer, ubi.i)
       IN  ubi' = IF ~NLess(buffer, Two96)
                  THEN FactorialState("fac_big", ubi.i + 1,
                                      NMul(ubi.result, buffer), Num(1))
                  ELSE FactorialState("fac_big", ubi.i + 1, ubi.result,
                                      buffer)
    /\ UNCHANGED <<rat, sq, pr>>

factorial_big_return ==
    /\ ubi.pc = "fac_big" /\ ubi.i > ubi.n
    /\ ubi' = FactorialState("done", ubi.i, NMul(ubi.result, ubi.buffer),
                             ubi.buffer)
    /\ UNCHANGED <<rat, sq, pr>>

FibonacciState(pc, i, last, llast, result) ==
    [pc |-> pc, fn |-> "fibonacci", n |-> ubi.n, i |-> i,
     last |-> last, llast |-> llast, result |-> result,
     path |-> IF ubi.pc = "start" THEN pc ELSE ubi.path,
     naive |-> IF ubi.pc = "start" THEN ubi.fibos[1] ELSE ubi.naive]

fibonacci_enter ==
    /\ ubi.pc = "start"
    /\ ubi' = IF ubi.n < 14
              THEN [FibonacciState("done", 0, <<>>, <<>>,
                                   Num(FibonacciTable[ubi.n + 1]))
                    EXCEPT !.path = "fib_table"]
              ELSE IF ubi.n < 187
              THEN FibonacciState("fib_u128", 0, Num(233), Num(144), Num(0))
              ELSE FibonacciState("fib_big", 0, Fibonacci186, Fibonacci185,
                                  <<>>)
    /\ UNCHANGED <<rat, sq, pr>>

\* for _ in 0..(n - 13) { result = last + llast; ... } on u128
fibonacci_u128_loop ==
    /\ ubi.pc = "fib_u128" /\ ubi.i < ubi.n - 13
    /\ LET result == NAdd(ubi.last, ubi.llast)
       IN  ubi' = IF NLess(result, Two128)
                  THEN FibonacciState("fib_u128", ubi.i + 1, result,
                                      ubi.last, result)
                  ELSE FibonacciState("overflowed", ubi.i, ubi.last,
                                      ubi.llast, result)
    /\ UNCHANGED <<rat, sq, pr>>

fibonacci_u128_return ==
    /\ ubi.pc = "fib_u128" /\ ubi.i >= ubi.n - 13
    /\ ubi' = FibonacciState("done", ubi.i, ubi.last, ubi.llast, ubi.result)
    /\ UNCHANGED <<rat, sq, pr>>

\* for _ in 0..(n - 186) { result = last.add_ubi(&llast); ... }
fibonacci_big_loop ==
    /\ ubi.pc = "fib_big" /\ ubi.i < ubi.n - 186
    /\ LET result == NAdd(ubi.last, ubi.llast)
       IN  ubi' = FibonacciState("fib_big", ubi.i + 1, result, ubi.last,
                                 result)
    /\ UNCHANGED <<rat, sq, pr>>

fibonacci_big_return ==
    /\ ubi.pc = "fib_big" /\ ubi.i >= ubi.n - 186
    /\ ubi' = FibonacciState("done", ubi.i, ubi.last, ubi.llast, ubi.result)
    /\ UNCHANGED <<rat, sq, pr>>

NextSeries ==
    \/ test_next
    \/ factorial_enter
    \/ factorial_u64_loop
    \/ factorial_u64_return
    \/ factorial_u32_loop
    \/ factorial_u32_return
    \/ factorial_big_loop
    \/ factorial_big_return
    \/ fibonacci_enter
    \/ fibonacci_u128_loop
    \/ fibonacci_u128_return
    \/ fibonacci_big_loop
    \/ fibonacci_big_return

SpecSeries == InitSeries /\ [][NextSeries]_vars

(***************************************************************************)
(* Claims about factorial and fibonacci.                                   *)
(***************************************************************************)
\* the hard-coded limbs against the naive recurrences of the tests
HardCodedConstantsRight ==
    ubi.pc = "start" =>
        /\ ubi.n = 20 => Factorial20 = ubi.acc
        /\ ubi.n = 128 => Factorial128 = ubi.acc
        /\ ubi.n = 185 => Fibonacci185 = ubi.fibos[1]
        /\ ubi.n = 185 => Fibonacci186 = ubi.fibos[2]

\* C12: factorial(n) is 1 * 2 * ... * n and fibonacci(n) is F(n) on every
\* path: the u64 loop below 21, the u32 buffer from 20! up to 128, the
\* big-integer buffer from 128! above; the table below 14, the u128 loop up
\* to 186, the big-integer loop from F(185), F(186) above.  The hard-coded
\* limbs are 20!, 128!, F(185) and F(186), and no accumulator leaves its
\* width.
C12_FastPathsAreNaiveRecurrences ==
    /\ HardCodedConstantsRight
    /\ ubi.pc # "overflowed"
    /\ (ubi.pc = "done" /\ ubi.fn = "factorial") =>
          /\ ubi.result = ubi.naive
          /\ ubi.path = (IF ubi.n < 21 THEN "fac_u64"
                         ELSE IF ubi.n < 129 THEN "fac_u32" ELSE "fac_big")
    /\ (ubi.pc = "done" /\ ubi.fn = "fibonacci") =>
          /\ ubi.result = ubi.naive
          /\ ubi.path = (IF ubi.n < 14 THEN "fib_table"
                         ELSE IF ubi.n < 187 THEN "fib_u128" ELSE "fib_big")

\* C12 witness: factorial(129) has come back from the big-integer path with
\* 128! * 129
C12_Witness ==
    /\ ubi.pc = "done" /\ ubi.fn = "factorial" /\ ubi.n = 129
    /\ ubi.path = "fac_big"
    /\ ubi.result = NMulSmall(Factorial128, 129)

(***************************************************************************)
(* UBigInt::log2 and log2_u32, src/src/ubigint/funcs.rs, at the full limb  *)
(* width: a value is a numeral, its limbs are its digits of radix 2^32.    *)
(***************************************************************************)
\* a - 1, for a positive a
RECURSIVE NPred(_)
NPred(a) ==
    IF Head(a) > 0
    THEN StripZeros(<<Head(a) - 1>> \o Tail(a))
    ELSE <<Radix - 1>> \o NPred(Tail(a))

\* self.len(): the number of 32-bit limbs of a normalized value (one for 0)
LimbCount(v) == IF v = <<>> THEN 1 ELSE (NBits(v) + 31) \div 32

\* self.0[self.len() - 1]: the most significant limb
TopLimb(v) == NShiftRight(v, 32 * (LimbCount(v) - 1))

\* while n > 1 { n /= 2; result += 1; }
RECURSIVE log2_u32_by_2(_, _)
log2_u32_by_2(n, result) ==
    IF NLess(Num(1), n)
    THEN log2_u32_by_2(NDivSmall(n, 2), result + 1)
    ELSE result

\* while n > 32 { n /= 32; result += 5; }
RECURSIVE log2_u32_by_32(_, _)
log2_u32_by_32(n, result) ==
    IF NLess(Num(32), n)
    THEN log2_u32_by_32(NDivSmall(n, 32), result + 5)
    ELSE log2_u32_by_2(n, result)

\* while n > 1024 { n /= 1024; result += 10; }
RECURSIVE log2_u32_by_1024(_, _)
log2_u32_by_1024(n, result) ==
    IF NLess(Num(1024), n)
    THEN log2_u32_by_1024(NDivSmall(n, 1024), result + 10)
    ELSE log2_u32_by_32(n, result)

log2_u32(n) == log2_u32_by_1024(n, 0)

\* log2 that counts every limb as 32 bits, the top one too
log2_len_not_decremented(self) ==
    LimbCount(self) * 32 + log2_u32(TopLimb(self))

log2(self) == (LimbCount(self) - 1) * 32 + log2_u32(TopLimb(self))

(***************************************************************************)
(* The log2 machine, in ubi.  As log_test does, it doubles n from a seed   *)
(* and takes log2 of n - 1, n and n + 1.                                   *)
(***************************************************************************)
\* 1 gives the powers of two of log_test; the others put the top limb on
\* both sides of the 32 and 1024 of log2_u32
LogSeeds == {1, 3, 5, 31, 33, 1023, 1025}

InitLog ==
    /\ ubi \in {[pc |-> "start", seed |-> s, k |-> 0, n |-> Num(s)] :
                 s \in LogSeeds}
    /\ rat = Idle /\ sq = Idle /\ pr = Idle

\* n.mul_u32_mut(2); i += 1;
log_test_next ==
    /\ ubi.pc = "start" /\ ubi.k < MaxShift
    /\ ubi' = [ubi EXCEPT !.k = ubi.k + 1, !.n = NMulSmall(ubi.n, 2)]
    /\ UNCHANGED <<rat, sq, pr>>

LogDone(d, self) ==
    /\ ubi.pc = "start"
    /\ ubi' = [pc |-> "log2_done", seed |-> ubi.seed, k |-> ubi.k, d |-> d,
               self |-> self, r |-> log2(self)]
    /\ UNCHANGED <<rat, sq, pr>>

\* n.log2()
Do_log2 == LogDone(0, ubi.n)

\* n.add_u32(1).log2()
Do_log2_above == LogDone(1, NAdd(ubi.n, Num(1)))

\* n.sub_u32(1).log2()
Do_log2_below == LogDone(-1, NPred(ubi.n))

NextLog ==
    \/ log_test_next
    \/ Do_log2
    \/ Do_log2_above
    \/ Do_log2_below

SpecLog == InitLog /\ [][NextLog]_vars

(***************************************************************************)
(* Claims about log2.                                                      *)
(***************************************************************************)
\* r = floor(log2(v)) for a positive v: 2^r <= v < 2^(r + 1)
IsFloorLog2(v, r) ==
    r >= 0 /\ ~NLess(v, NPow2(r)) /\ NLess(v, NPow2(r + 1))

\* C13: log2(n) is floor(log2(n)) for n >= 1 and 0 for n = 0; it is
\* 32 * (limb count - 1) + floor(log2(top limb)), log2_u32(m) being
\* floor(log2(m)) for a limb m >= 1; so log2(2^k) = k, log2(2^k + 1) = k and
\* log2(2^k - 1) = k - 1 for k >= 1.
C13_Log2IsFloorLog2 ==
    ubi.pc = "log2_done" =>
        LET v == ubi.self
            top == TopLimb(v)
        IN  /\ v = Num(0) => ubi.r = 0
            /\ v # Num(0) =>
                  /\ IsFloorLog2(v, ubi.r)
                  /\ IsFloorLog2(top, log2_u32(top))
                  /\ log2_u32(top) < 32
                  /\ ubi.r = 32 * (LimbCount(v) - 1) + log2_u32(top)
            /\ (ubi.seed = 1 /\ ubi.k >= 1) =>
                  ubi.r = (IF ubi.d = -1 THEN ubi.k - 1 ELSE ubi.k)

\* C13 witness: log2(2^64 - 1) = 63 has been taken, of two full limbs
C13_Witness ==
    /\ ubi.pc = "log2_done" /\ ubi.seed = 1 /\ ubi.k = 64 /\ ubi.d = -1
    /\ LimbCount(ubi.self) = 2
    /\ TopLimb(ubi.self) = NPred(Two32)
    /\ ubi.r = 63

(***************************************************************************)
(* UBigInt::log2_accurate, src/src/ubigint/funcs.rs, at the full limb      *)
(* width.  A stage is what the code does three times over: keep the top    *)
(* three limbs and count the bits dropped, square eight times, scale the   *)
(* count by 256.                                                           *)
(***************************************************************************)
\* self.shift_right(n): n whole limbs are dropped
shift_right_limbs(self, n) == NShiftRight(self, 32 * n)

\* if self_clone.len() > 3 { result += (len - 3) * 32; shift_right(len - 3) }
keep_three_limbs(st) ==
    LET len == LimbCount(st.self_clone)
    IN  IF len > 3
        THEN [result |-> NAdd(st.result, Num((len - 3) * 32)),
              self_clone |-> shift_right_limbs(st.self_clone, len - 3)]
        ELSE st

\* for _ in 0..n { self_clone = self_clone.mul_ubi(&self_clone); }
RECURSIVE squared(_, _)
squared(self_clone, n) ==
    IF n = 0
    THEN self_clone
    ELSE LET once == NMul(self_clone, self_clone)
         IN  squared(once, n - 1)

log2_accurate_stage(st) ==
    LET kept == keep_three_limbs(st)
    IN  [result |-> NMulSmall(kept.result, 256),
         self_clone |-> squared(kept.self_clone, 8)]

\* three stages, then result += self_clone.log2()
RECURSIVE log2_accurate_stages(_, _)
log2_accurate_stages(st, n) ==
    IF n = 0
    THEN NAdd(st.result, Num(log2(st.self_clone)))
    ELSE LET next == log2_accurate_stage(st)
         IN  log2_accurate_stages(next, n - 1)

log2_accurate(self) ==
    log2_accurate_stages([result |-> <<>>, self_clone |-> self], 3)

(***************************************************************************)
(* Ratio arithmetic used by ln_iter and pow_iter.  src/ratio/arith is not  *)
(* part of the sources read here; the operations are exact and return      *)
(* values in lowest terms with a positive denominator (spec 3).            *)
(***************************************************************************)
normalize(numer, denom) ==
    LET g == gcd_ubi(Abs(numer), Abs(denom))
    IN  [numer |-> Sign(denom) * Sign(numer) * (Abs(numer) \div g),
         denom |-> Abs(denom) \div g]

add_rat(a, b) ==
    LET g == gcd_ubi(a.denom, b.denom)
    IN  normalize(a.numer * (b.denom \div g) + b.numer * (a.denom \div g),
                  (a.denom \div g) * b.denom)

sub_rat(a, b) == add_rat(a, neg(b))

mul_rat(a, b) ==
    LET g1 == gcd_ubi(Abs(a.numer), b.denom)
        g2 == gcd_ubi(Abs(b.numer), a.denom)
    IN  normalize(div_bi(a.numer, g1) * div_bi(b.numer, g2),
                  (a.denom \div g2) * (b.denom \div g1))

div_i32(a, k) == mul_rat(a, [numer |-> 1, denom |-> k])

sub_i32(a, k) == add_rat(a, from_bi(-k))

(***************************************************************************)
(* ln_iter, src/src/ratio/funcs/ln.rs.                                     *)
(***************************************************************************)
\* the value of a small numeral
RECURSIVE to_i64(_)
to_i64(a) == IF a = <<>> THEN 0 ELSE Head(a) + Radix * to_i64(Tail(a))

\* digits lo..hi of a - b - borrow, and the borrow out of digit hi
RECURSIVE NSubRange(_, _, _, _, _)
NSubRange(a, b, lo, hi, borrow) ==
    IF lo = hi
    THEN LET x == DigitAt(a, lo) - DigitAt(b, lo) - borrow
         IN  [digits |-> <<x % Radix>>, borrow |-> IF x < 0 THEN 1 ELSE 0]
    ELSE LET mid == (lo + hi) \div 2
             low == NSubRange(a, b, lo, mid, borrow)
             high == NSubRange(a, b, mid + 1, hi, low.borrow)
         IN  [digits |-> low.digits \o high.digits, borrow |-> high.borrow]

\* a - b, for a >= b
NSub(a, b) ==
    IF a = <<>> THEN a ELSE StripZeros(NSubRange(a, b, 1, Len(a), 0).digits)

\* x.numer.log2_accurate().sub_bi(&x.denom.log2_accurate())
\*     .shift_right(1).to_i64().unwrap()
\* BigInt::log2_accurate is log2_accurate of the magnitude; the shift drops
\* one limb of the magnitude of the difference.
log2_approx(x) ==
    LET ln == log2_accurate(Num(Abs(x.numer)))
        ld == log2_accurate(Num(x.denom))
    IN  IF NLess(ln, ld)
        THEN -to_i64(shift_right_limbs(NSub(ld, ln), 1))
        ELSE to_i64(shift_right_limbs(NSub(ln, ld), 1))

\* ln_iter that lets every x through
ln_iter_fails_never(x) == FALSE

\* ln_iter that takes the logarithm of 0 for undefined too
ln_iter_fails_at_zero(x) == x.numer <= 0

\* if x.is_neg() { panic!("logarithm of a negative number is undefined"); }
ln_iter_fails(x) == is_neg(x)

\* the limb width in bits, the 32 of `% 32` and `/ 32`
LimbBits == 2 * HalfLimbBits

\* (1 << n) as i32, on a signed integer of the limb width
one_shifted_as_i32(n) ==
    IF n = LimbBits - 1 THEN -Pow(2, LimbBits - 1) ELSE Pow(2, n)

\* while counter > 0 && v.rem_pow2(2).is_zero() { counter -= 1; v /= 2; }
RECURSIVE halve_while_even(_, _)
halve_while_even(v, counter) ==
    IF counter > 0 /\ v % 2 = 0
    THEN halve_while_even(div_bi(v, 2), counter - 1)
    ELSE [v |-> v, counter |-> counter]

\* rescale that goes without `if log2_approx_counter % 32 == 31`
scale_up_unsplit(v, counter) ==
    LET factor == one_shifted_as_i32(counter % LimbBits)
    IN  [v |-> v * factor * Pow(Base, counter \div LimbBits),
         factor |-> factor]

\* if counter % 32 == 31 { counter -= 1; v *= 2; }
\* v *= (1 << (counter % 32)) as i32; v.shift_left_mut(counter / 32);
scale_up(v, counter) ==
    LET split == counter % LimbBits = LimbBits - 1
        c == IF split THEN counter - 1 ELSE counter
        w == IF split THEN v * 2 ELSE v
        factor == one_shifted_as_i32(c % LimbBits)
    IN  [v |-> w * factor * Pow(Base, c \div LimbBits), factor |-> factor]

\* x_iter of ln_iter after the rescaling by 2^approx, approx being the
\* log2_approx of the code, and the factor
\* that was cast to i32
rescale(x, approx) ==
    IF approx > 0
    THEN LET halved == halve_while_even(x.numer, Abs(approx))
             scaled == scale_up(x.denom, halved.counter)
         IN  [x_iter |-> [numer |-> halved.v, denom |-> scaled.v],
              factor |-> scaled.factor]
    ELSE LET halved == halve_while_even(x.denom, Abs(approx))
             scaled == scale_up(x.numer, halved.counter)
         IN  [x_iter |-> [numer |-> scaled.v, denom |-> halved.v],
              factor |-> scaled.factor]

\* the value ln_iter returns, result.add_rat(&ln2_iter(iter).mul_bi(e)):
\* series + ln2_iter_times * ln2_iter(iter).  ln2_iter is outside the sources
\* read here and is kept as a symbol.
ln_value(result, e, iter) ==
    [series |-> result, ln2_iter_times |-> from_bi(e), iter |-> iter]

\* pow_iter that hands exp_iter one more iter than it hands ln_iter
pow_iter_result_iter_off(b, ln, iter) ==
    [exp_iter_of |-> [series |-> mul_rat(b, ln.series),
                      ln2_iter_times |-> mul_rat(b, ln.ln2_iter_times),
                      iter |-> ln.iter],
     iter |-> iter + 1]

\* exp_iter(&b.mul(&ln_iter(a, iter)), iter); exp_iter is outside the sources
\* read here and is kept as a symbol applied to b * ln.
pow_iter_result(b, ln, iter) ==
    [exp_iter_of |-> [series |-> mul_rat(b, ln.series),
                      ln2_iter_times |-> mul_rat(b, ln.ln2_iter_times),
                      iter |-> ln.iter],
     iter |-> iter]

ToRatio(n, d) == [numer |-> n, denom |-> d]

\* the arguments ln_iter is called with
LnInputs ==
    {ToRatio(0, 1), ToRatio(1, 1), ToRatio(2, 1), ToRatio(10, 1),
     ToRatio(1, 4), ToRatio(-1, 1), ToRatio(-1, 2)}

\* the bases and exponents pow_iter is called with
PowBases == {ToRatio(0, 1), ToRatio(1, 1), ToRatio(2, 1), ToRatio(-1, 2)}

PowExponents == {ToRatio(0, 1), ToRatio(1, 1), ToRatio(1, 2), ToRatio(-2, 1)}

SeriesFits(a) == Abs(a.numer) <= MaxSeriesTerm /\ a.denom <= MaxSeriesTerm

InitLn ==
    /\ rat \in {[pc |-> "start", x |-> x] : x \in LnInputs \cup PowBases}
    /\ ubi = Idle /\ sq = Idle /\ pr = Idle

\* ln_iter(&x, iter)
call_ln_iter ==
    /\ rat.pc = "start" /\ rat.x \in LnInputs
    /\ rat' = [pc |-> "ln_iter", fn |-> "ln_iter", x |-> rat.x]
    /\ UNCHANGED <<ubi, sq, pr>>

\* pow_iter(&x, &b, iter): if a.is_zero() { return Ratio::zero(); }
pow_iter_zero ==
    /\ rat.pc = "start" /\ rat.x \in PowBases /\ rat.x.numer = 0
    /\ \E b \in PowExponents, iter \in 0..MaxIter :
           rat' = [pc |-> "returned", fn |-> "pow_iter", x |-> rat.x,
                   b |-> b, iter |-> iter, value |-> from_bi(0)]
    /\ UNCHANGED <<ubi, sq, pr>>

\* pow_iter(&x, &b, iter) with x nonzero: ln_iter(a, iter) is evaluated first
pow_iter_calls_ln ==
    /\ rat.pc = "start" /\ rat.x \in PowBases /\ rat.x.numer # 0
    /\ rat' = [pc |-> "ln_iter", fn |-> "pow_iter", x |-> rat.x]
    /\ UNCHANGED <<ubi, sq, pr>>

ln_negative_panic ==
    /\ rat.pc = "ln_iter" /\ ln_iter_fails(rat.x)
    /\ rat' = [pc |-> "panicked", fn |-> rat.fn, x |-> rat.x,
               message |-> "logarithm of a negative number is undefined"]
    /\ UNCHANGED <<ubi, sq, pr>>

ln_log2_approx ==
    /\ rat.pc = "ln_iter" /\ ~ln_iter_fails(rat.x)
    /\ rat' = [pc |-> "rescale", fn |-> rat.fn, x |-> rat.x,
               log2_approx |-> log2_approx(rat.x)]
    /\ UNCHANGED <<ubi, sq, pr>>

\* the rescaling, x_iter.sub_i32_mut(1); let a = x_iter.clone();
\* let mut result = a.clone();  iter is read here for the first time.
ln_reduce ==
    /\ rat.pc = "rescale"
    /\ LET scaled == rescale(rat.x, rat.log2_approx)
           a == sub_i32(scaled.x_iter, 1)
       IN  \E iter \in 0..MaxIter :
               /\ iter = 0 \/ SeriesFits(a)
               /\ rat' = [pc |-> "series", fn |-> rat.fn, x |-> rat.x,
                          log2_approx |-> rat.log2_approx, iter |-> iter,
                          factor |-> scaled.factor, rescaled |-> scaled.x_iter,
                          a |-> a, x_iter |-> a, result |-> a, k |-> 0]
    /\ UNCHANGED <<ubi, sq, pr>>

\* one round of `for k in 0..iter`
ln_series_step ==
    /\ rat.pc = "series" /\ rat.k < rat.iter
    /\ LET x1 == mul_rat(rat.x_iter, rat.a)
           r1 == sub_rat(rat.result, div_i32(x1, 2 * rat.k + 2))
           x2 == mul_rat(x1, rat.a)
           r2 == add_rat(r1, div_i32(x2, 2 * rat.k + 3))
       IN  rat' = [rat EXCEPT !.x_iter = x2, !.result = r2, !.k = rat.k + 1]
    /\ UNCHANGED <<ubi, sq, pr>>

ln_return ==
    /\ rat.pc = "series" /\ rat.k = rat.iter
    /\ rat' = [pc |-> IF rat.fn = "ln_iter" THEN "returned" ELSE "ln_returned",
               fn |-> rat.fn, x |-> rat.x, log2_approx |-> rat.log2_approx,
               iter |-> rat.iter, factor |-> rat.factor,
               rescaled |-> rat.rescaled, a |-> rat.a,
               value |-> ln_value(rat.result, rat.log2_approx, rat.iter)]
    /\ UNCHANGED <<ubi, sq, pr>>

\* b is read here for the first time
pow_iter_return ==
    /\ rat.pc = "ln_returned"
    /\ \E b \in PowExponents :
           rat' = [pc |-> "returned", fn |-> "pow_iter", x |-> rat.x,
                   b |-> b, iter |-> rat.iter, ln |-> rat.value,
                   value |-> pow_iter_result(b, rat.value, rat.iter)]
    /\ UNCHANGED <<ubi, sq, pr>>

NextLn ==
    \/ call_ln_iter
    \/ pow_iter_zero
    \/ pow_iter_calls_ln
    \/ ln_negative_panic
    \/ ln_log2_approx
    \/ ln_reduce
    \/ ln_series_step
    \/ ln_return
    \/ pow_iter_return

SpecLn == InitLn /\ [][NextLn]_vars

\* the rescaling and the series of ln_iter on every nonnegative x and every
\* log2_approx, whatever log2_accurate makes of x
ReduceInputs ==
    {x \in {ToRatio(n, d) : n \in 0..MaxReduceNumer, d \in 1..MaxReduceDenom} :
        gcd_ubi(x.numer, x.denom) = 1}

ReduceExponents == -(2 * LimbBits + 1)..(2 * LimbBits + 1)

InitLnReduce ==
    /\ rat \in {[pc |-> "rescale", fn |-> "ln_iter", x |-> x,
                 log2_approx |-> e] : x \in ReduceInputs, e \in ReduceExponents}
    /\ ubi = Idle /\ sq = Idle /\ pr = Idle

NextLnReduce ==
    \/ ln_reduce
    \/ ln_series_step
    \/ ln_return

SpecLnReduce == InitLnReduce /\ [][NextLnReduce]_vars

(***************************************************************************)
(* Claims on ln_iter and pow_iter.                                         *)
(***************************************************************************)
\* the f with 2^f <= x < 2^(f+1), for a small x > 0
FloorLog2OfRatio(x) ==
    CHOOSE f \in -8..8 :
        IF f >= 0
        THEN /\ Pow(2, f) * x.denom <= x.numer
             /\ x.numer < Pow(2, f + 1) * x.denom
        ELSE /\ x.denom <= x.numer * Pow(2, -f)
             /\ x.numer * Pow(2, -f - 1) < x.denom

\* 1/2 <= x / 2^e < 4
InReducedRange(x, e) ==
    IF e >= 0
    THEN /\ x.denom * Pow(2, e) <= 2 * x.numer
         /\ x.numer < 4 * x.denom * Pow(2, e)
    ELSE /\ x.denom <= 2 * x.numer * Pow(2, -e)
         /\ x.numer * Pow(2, -e) < 4 * x.denom

\* C14: for every x > 0 the exponent log2_approx that ln_iter derives from
\* log2_accurate(numer) - log2_accurate(denom) is within 1 of floor(log2(x)),
\* the reduced value satisfies 1/2 <= x / 2^e < 4, and e is 1 for x = 2,
\* -2 for x = 1/4 and 3 for x = 10.
C14_ExponentEstimatesLog2 ==
    (rat.pc = "rescale" /\ rat.x.numer > 0) =>
        LET e == rat.log2_approx
        IN  /\ Abs(e - FloorLog2OfRatio(rat.x)) <= 1
            /\ InReducedRange(rat.x, e)
            /\ rat.x = ToRatio(2, 1) => e = 1
            /\ rat.x = ToRatio(1, 4) => e = -2
            /\ rat.x = ToRatio(10, 1) => e = 3

\* C15: ln_iter fails with the undefined-logarithm message for every negative
\* x before any range reduction or series evaluation, and so does pow_iter
\* for every negative base.
C15_NegativeLogarithmFails ==
    /\ (rat.pc # "start" /\ is_neg(rat.x)) =>
           /\ rat.pc \in {"ln_iter", "panicked"}
           /\ rat.pc = "ln_iter" => ENABLED ln_negative_panic
           /\ rat.pc = "panicked" =>
                  rat.message = "logarithm of a negative number is undefined"
    /\ rat.pc = "panicked" => is_neg(rat.x)

C15_Witness ==
    /\ rat.pc = "panicked" /\ rat.fn = "pow_iter" /\ rat.x = ToRatio(-1, 2)

\* C16: pow_iter(0, b, iter) returns the rational zero for every b and iter
\* without evaluating ln_iter or exp_iter; for a > 0 the result is
\* exp_iter(b * ln_iter(a, iter), iter) with the same iter in both.
C16_PowIterZeroOrExpOfLn ==
    (rat.pc # "start" /\ rat.fn = "pow_iter") =>
        IF rat.x.numer = 0
        THEN /\ rat.pc = "returned"
             /\ rat.value = ToRatio(0, 1)
             /\ rat.b \in PowExponents /\ rat.iter \in 0..MaxIter
        ELSE /\ rat.pc = "returned" =>
                 /\ rat.x.numer > 0
                 /\ rat.ln.iter = rat.iter
                 /\ rat.value.iter = rat.iter
                 /\ rat.value.exp_iter_of.iter = rat.iter
                 /\ rat.value.exp_iter_of.series = mul_rat(rat.b, rat.ln.series)
                 /\ rat.value.exp_iter_of.ln2_iter_times =
                        mul_rat(rat.b, rat.ln.ln2_iter_times)
             /\ rat.pc = "ln_returned" => rat.value.iter = rat.iter

C16_Witness ==
    /\ rat.pc = "returned" /\ rat.fn = "pow_iter" /\ rat.x = ToRatio(2, 1)
    /\ rat.b = ToRatio(1, 2) /\ rat.iter = 1
    /\ rat.value.exp_iter_of.series = ToRatio(5, 12)

\* (-1)^(n+1) * a^n / n
AlternatingTerm(a, n) ==
    normalize((IF n % 2 = 0 THEN -1 ELSE 1) * Pow(a.numer, n),
              n * Pow(a.denom, n))

\* sum over j = 1 .. n of (-1)^(j+1) * a^j / j
RECURSIVE AlternatingSum(_, _)
AlternatingSum(a, n) ==
    IF n = 0 THEN ToRatio(0, 1)
    ELSE add_rat(AlternatingSum(a, n - 1), AlternatingTerm(a, n))

\* x = y * 2^e
IsTimesPow2(x, y, e) ==
    IF e >= 0
    THEN x.numer * y.denom = y.numer * Pow(2, e) * x.denom
    ELSE x.numer * y.denom * Pow(2, -e) = y.numer * x.denom

\* C17: for every x >= 0 and every exponent e the rescaling of ln_iter is
\* exact (x = x_iter * 2^e), x_iter has a positive denominator and is in
\* lowest terms, the factor cast to i32 is positive, and the value returned
\* is the sum over j = 1 .. 2 * iter + 1 of (-1)^(j+1) * a^j / j with
\* a = x_iter - 1, plus e * ln2_iter(iter).
C17_RescalingExactAndSeriesSum ==
    (rat.pc \in {"series", "returned"}) =>
        /\ IsTimesPow2(rat.x, rat.rescaled, rat.log2_approx)
        /\ rat.rescaled.denom > 0
        /\ gcd_ubi(Abs(rat.rescaled.numer), rat.rescaled.denom) = 1
        /\ rat.factor > 0
        /\ rat.a = add_rat(rat.rescaled, ToRatio(-1, 1))
        /\ rat.pc = "series" =>
               rat.result = AlternatingSum(rat.a, 2 * rat.k + 1)
        /\ rat.pc = "returned" =>
               /\ rat.value.series = AlternatingSum(rat.a, 2 * rat.iter + 1)
               /\ rat.value.ln2_iter_times = ToRatio(rat.log2_approx, 1)
               /\ rat.value.iter = rat.iter

C17_Witness ==
    /\ rat.pc = "returned" /\ rat.x = ToRatio(3, 1)
    /\ rat.log2_approx = 2 * LimbBits - 1
    /\ rat.factor = Pow(2, LimbBits - 2)
    /\ rat.rescaled = ToRatio(3, Pow(2, 2 * LimbBits - 1))
    /\ rat.value.series = ToRatio(3 - Pow(2, 2 * LimbBits - 1),
                                  Pow(2, 2 * LimbBits - 1))

\* 1 + 1/2 + ... + 1/n
RECURSIVE HarmonicSum(_)
HarmonicSum(n) ==
    IF n = 0 THEN ToRatio(0, 1)
    ELSE add_rat(HarmonicSum(n - 1), ToRatio(1, n))

\* C18: ln_iter(0, iter) does not fail: log2_accurate(0) is 0, the exponent
\* is 0, the series argument is -1 and the call returns
\* -(1 + 1/2 + ... + 1/(2 * iter + 1)).
C18_LnOfZeroIsHarmonic ==
    (rat.pc # "start" /\ rat.fn = "ln_iter" /\ rat.x.numer = 0) =>
        /\ rat.pc # "panicked"
        /\ log2_accurate(Num(rat.x.numer)) = Num(0)
        /\ rat.pc \in {"rescale", "series", "returned"} => rat.log2_approx = 0
        /\ rat.pc \in {"series", "returned"} => rat.a = ToRatio(-1, 1)
        /\ rat.pc = "returned" =>
               /\ rat.value.series = neg(HarmonicSum(2 * rat.iter + 1))
               /\ rat.value.ln2_iter_times = ToRatio(0, 1)

C18_Witness ==
    /\ rat.pc = "returned" /\ rat.fn = "ln_iter" /\ rat.x = ToRatio(0, 1)
    /\ rat.iter = 2 /\ rat.value.series = ToRatio(-137, 60)

=============================================================================
